---------------------------- MODULE Spec2Model ----------------------------
(***************************************************************************)
(* srcfacts: a streaming XML tokenizer over a bounded window that is       *)
(* refilled from a byte source, with the srcML metric counters it keeps.   *)
(*                                                                         *)
(* The model follows src/srcfacts.cpp statement by statement.  A byte is a *)
(* one-character string; "NUL" is the zero byte of the zero-initialised    *)
(* static buffer and "??" is a byte of memory outside that array.  The     *)
(* build modelled is the CMake default (Release: assert() compiled out, no *)
(* library hardening), so string_view::operator[] past the window reads    *)
(* the static buffer, and remove_prefix(npos) moves the view one byte back *)
(* (data + npos, size - npos).  Anything that leaves the static array or   *)
(* uses the released archive handle ends in pc = "undefined".              *)
(***************************************************************************)
EXTENDS Integers, Sequences, FiniteSets, TLC

(***************************************************************************)
(* Sizes.  The program has BLOCK_SIZE = 4096 and BUFFER_SIZE = 16 * 16 *   *)
(* BLOCK_SIZE; the model keeps BUFFER_SIZE a multiple of BLOCK_SIZE and    *)
(* scales both down so that whole windows can be enumerated.  BLOCK_SIZE   *)
(* stays above the longest fixed lookahead of the main loop (9 bytes,      *)
(* "<![CDATA[").                                                           *)
(***************************************************************************)
BLOCK_SIZE == 16
BufferBlocks == 5
BUFFER_SIZE == BufferBlocks * BLOCK_SIZE

\* counters are C++ int; the model keeps IntBits of them
IntBits == 10
INT_MAX == 2 ^ (IntBits - 1) - 1

\* std::string_view::npos, (size_t) -1
NPOS == -1

WHITESPACE == {" ", "\n", "\t", "\r"}
NAMEEND == {">", " ", "/", "\"", ":", "=", "\n", "\t", "\r"}

\* bytes of a read the model takes when the byte source may return less
\* than was asked for
ShortReads == {1, 7}

Unknown == "??"
Nul == "NUL"

Ord ==
    "NUL" :> 0 @@ "\t" :> 9 @@ "\n" :> 10 @@ "\r" :> 13 @@ " " :> 32 @@ "!" :> 33
    @@ "\"" :> 34 @@ "#" :> 35 @@ "$" :> 36 @@ "%" :> 37 @@ "&" :> 38 @@ "'" :> 39 @@ "(" :> 40
    @@ ")" :> 41 @@ "*" :> 42 @@ "+" :> 43 @@ "," :> 44 @@ "-" :> 45 @@ "." :> 46 @@ "/" :> 47
    @@ "0" :> 48 @@ "1" :> 49 @@ "2" :> 50 @@ "3" :> 51 @@ "4" :> 52 @@ "5" :> 53 @@ "6" :> 54
    @@ "7" :> 55 @@ "8" :> 56 @@ "9" :> 57 @@ ":" :> 58 @@ ";" :> 59 @@ "<" :> 60 @@ "=" :> 61
    @@ ">" :> 62 @@ "?" :> 63 @@ "@" :> 64 @@ "A" :> 65 @@ "B" :> 66 @@ "C" :> 67 @@ "D" :> 68
    @@ "E" :> 69 @@ "F" :> 70 @@ "G" :> 71 @@ "H" :> 72 @@ "I" :> 73 @@ "J" :> 74 @@ "K" :> 75
    @@ "L" :> 76 @@ "M" :> 77 @@ "N" :> 78 @@ "O" :> 79 @@ "P" :> 80 @@ "Q" :> 81 @@ "R" :> 82
    @@ "S" :> 83 @@ "T" :> 84 @@ "U" :> 85 @@ "V" :> 86 @@ "W" :> 87 @@ "X" :> 88 @@ "Y" :> 89
    @@ "Z" :> 90 @@ "[" :> 91 @@ "]" :> 93 @@ "^" :> 94 @@ "_" :> 95
    @@ "a" :> 97 @@ "b" :> 98 @@ "c" :> 99 @@ "d" :> 100 @@ "e" :> 101 @@ "f" :> 102
    @@ "g" :> 103 @@ "h" :> 104 @@ "i" :> 105 @@ "j" :> 106 @@ "k" :> 107 @@ "l" :> 108
    @@ "m" :> 109 @@ "n" :> 110 @@ "o" :> 111 @@ "p" :> 112 @@ "q" :> 113 @@ "r" :> 114
    @@ "s" :> 115 @@ "t" :> 116 @@ "u" :> 117 @@ "v" :> 118 @@ "w" :> 119 @@ "x" :> 120
    @@ "y" :> 121 @@ "z" :> 122 @@ "{" :> 123 @@ "|" :> 124 @@ "}" :> 125 @@ "~" :> 126

\* the bitset's string, most significant bit (bit 127) first
xmlNameMaskBits ==
    << 0, 0, 0, 0, 0, 1, 1, 1, 1, 1, 1, 1, 1, 1, 1, 1, 1, 1, 1, 1, 1, 1, 1, 1, 1, 1, 1, 1, 1, 1, 1, 0,
       1, 0, 0, 0, 0, 1, 1, 1, 1, 1, 1, 1, 1, 1, 1, 1, 1, 1, 1, 1, 1, 1, 1, 1, 1, 1, 1, 1, 1, 1, 1, 0,
       0, 0, 0, 0, 0, 0, 1, 1, 1, 1, 1, 1, 1, 1, 1, 1, 0, 1, 1, 0, 0, 0, 0, 0, 0, 0, 0, 0, 0, 0, 0, 0,
       0, 0, 0, 0, 0, 0, 0, 0, 0, 0, 0, 0, 0, 0, 0, 0, 0, 0, 0, 0, 0, 0, 0, 0, 0, 0, 0, 0, 0, 0, 0, 0 >>

\* xmlNameMask[c]: bit c of the bitset
xmlNameMask(c) ==
    IF c \in DOMAIN Ord THEN xmlNameMaskBits[128 - Ord[c]] = 1 ELSE FALSE

Min(a, b) == IF a < b THEN a ELSE b
Max(a, b) == IF a > b THEN a ELSE b

\* int arithmetic in IntBits bits, two's complement
AddInt(a, b) == ((a + b + 2 ^ (IntBits - 1)) % (2 ^ IntBits)) - 2 ^ (IntBits - 1)

\* string literals of the source, as byte sequences
Lit(s) ==
    CASE s = "version" -> <<"v","e","r","s","i","o","n">>
      [] s = "encoding" -> <<"e","n","c","o","d","i","n","g">>
      [] s = "standalone" -> <<"s","t","a","n","d","a","l","o","n","e">>
      [] s = "escape" -> <<"e","s","c","a","p","e">>
      [] s = "expr" -> <<"e","x","p","r">>
      [] s = "decl" -> <<"d","e","c","l">>
      [] s = "comment" -> <<"c","o","m","m","e","n","t">>
      [] s = "function" -> <<"f","u","n","c","t","i","o","n">>
      [] s = "unit" -> <<"u","n","i","t">>
      [] s = "class" -> <<"c","l","a","s","s">>
      [] s = "url" -> <<"u","r","l">>
      [] s = "char" -> <<"c","h","a","r">>
      [] s = "<!--" -> <<"<","!","-","-">>
      [] s = "-->" -> <<"-","-",">">>
      [] s = "]]>" -> <<"]","]",">">>
      [] s = "?>" -> <<"?",">">>
      [] s = "<?xml " -> <<"<","?","x","m","l"," ">>
      [] s = "<!DOCTYPE " -> <<"<","!","D","O","C","T","Y","P","E"," ">>
      [] s = "<![CDATA[" -> <<"<","!","[","C","D","A","T","A","[">>
      [] s = "xmlns" -> <<"x","m","l","n","s">>

-----------------------------------------------------------------------------
VARIABLES
    input,          \* the bytes the byte source will deliver, in order
    tree,           \* the document as a token list, when input renders one
    chunking,       \* "whole": a read fills the request; "short": it may not
    archive,        \* inputArchive: "unopened", "open" or "freed"
    srcPos,         \* bytes delivered by the byte source so far
    buffer,         \* static char buffer[BUFFER_SIZE]
    cStart,         \* content.data() - buffer
    cSize,          \* content.size()
    url, textSize, loc, exprCount, functionCount, classCount, unitCount,
    declCount, commentCount, totalBytes,
    depth, doneReading,
    pc,             \* position in main()
    exitStatus,     \* -1 while running
    reported,       \* the report has been written to std::cout
    files,          \* the Files row of the report
    errs,           \* diagnostics written to std::cerr
    rewound,        \* remove_prefix(npos) has moved content back over a byte
    refillCalls,    \* calls of refillContent so far
    lastRefill      \* what the latest refillContent call did

vars == << input, tree, chunking, archive, srcPos, buffer, cStart, cSize,
           url, textSize, loc, exprCount, functionCount, classCount,
           unitCount, declCount, commentCount, totalBytes, depth,
           doneReading, pc, exitStatus, reported, files, errs, rewound,
           refillCalls, lastRefill >>

\* the state as one record, so that every statement is a function on it
Cur ==
    [ input |-> input, tree |-> tree, chunking |-> chunking,
      archive |-> archive, srcPos |-> srcPos, buffer |-> buffer,
      cStart |-> cStart, cSize |-> cSize, url |-> url,
      textSize |-> textSize, loc |-> loc, exprCount |-> exprCount,
      functionCount |-> functionCount, classCount |-> classCount,
      unitCount |-> unitCount, declCount |-> declCount,
      commentCount |-> commentCount, totalBytes |-> totalBytes,
      depth |-> depth, doneReading |-> doneReading, pc |-> pc,
      exitStatus |-> exitStatus, reported |-> reported, files |-> files,
      errs |-> errs, rewound |-> rewound, refillCalls |-> refillCalls,
      lastRefill |-> lastRefill,
      \* set by a step whose behaviour the language leaves undefined, and
      \* which this build nevertheless carries on from
      ub |-> FALSE ]

Set(s) ==
    /\ input' = s.input /\ tree' = s.tree /\ chunking' = s.chunking
    /\ archive' = s.archive /\ srcPos' = s.srcPos /\ buffer' = s.buffer
    /\ cStart' = s.cStart /\ cSize' = s.cSize /\ url' = s.url
    /\ textSize' = s.textSize /\ loc' = s.loc /\ exprCount' = s.exprCount
    /\ functionCount' = s.functionCount /\ classCount' = s.classCount
    /\ unitCount' = s.unitCount /\ declCount' = s.declCount
    /\ commentCount' = s.commentCount /\ totalBytes' = s.totalBytes
    /\ depth' = s.depth /\ doneReading' = s.doneReading /\ pc' = s.pc
    /\ exitStatus' = s.exitStatus /\ reported' = s.reported
    /\ files' = s.files /\ errs' = s.errs /\ rewound' = s.rewound
    /\ refillCalls' = s.refillCalls /\ lastRefill' = s.lastRefill

\* the same, for the initial state
InitAs(s) ==
    /\ input = s.input /\ tree = s.tree /\ chunking = s.chunking
    /\ archive = s.archive /\ srcPos = s.srcPos /\ buffer = s.buffer
    /\ cStart = s.cStart /\ cSize = s.cSize /\ url = s.url
    /\ textSize = s.textSize /\ loc = s.loc /\ exprCount = s.exprCount
    /\ functionCount = s.functionCount /\ classCount = s.classCount
    /\ unitCount = s.unitCount /\ declCount = s.declCount
    /\ commentCount = s.commentCount /\ totalBytes = s.totalBytes
    /\ depth = s.depth /\ doneReading = s.doneReading /\ pc = s.pc
    /\ exitStatus = s.exitStatus /\ reported = s.reported
    /\ files = s.files /\ errs = s.errs /\ rewound = s.rewound
    /\ refillCalls = s.refillCalls /\ lastRefill = s.lastRefill

\* main() has returned, or the run has left defined behaviour
Halted(s) == s.pc \in {"done", "fatal", "undefined"}

\* the outcomes of a step that ends in s: s itself, and, when the step
\* broke a precondition of the library, anything at all
Go(s) ==
    \/ Set(s)
    \/ s.ub /\ Set([Cur EXCEPT !.pc = "undefined"])

-----------------------------------------------------------------------------
(* std::string_view operations on content = (buffer + cStart, cSize) *)

\* content[k]; k = NPOS is the byte before the view
At(s, k) ==
    LET i == s.cStart + k
    IN  IF i >= 0 /\ i < BUFFER_SIZE THEN s.buffer[i + 1] ELSE Unknown

\* content.substr(p, n) for p <= size(); n = NPOS takes the rest
Sub(s, p, n) ==
    LET last == IF n = NPOS \/ p + n > s.cSize THEN s.cSize ELSE p + n
    IN  [i \in 1..Max(last - p, 0) |-> At(s, p + i - 1)]

\* the bytes of the window
Window(s) == Sub(s, 0, NPOS)

\* content.find_first_of(set, from)
FindFirstOf(s, set, from) ==
    LET hits == {i \in Max(from, 0)..(s.cSize - 1) : At(s, i) \in set}
    IN  IF hits = {} THEN NPOS ELSE CHOOSE i \in hits : \A j \in hits : i <= j

\* content.find_first_not_of(set)
FindFirstNotOf(s, set) ==
    LET hits == {i \in 0..(s.cSize - 1) : At(s, i) \notin set}
    IN  IF hits = {} THEN NPOS ELSE CHOOSE i \in hits : \A j \in hits : i <= j

\* content.compare(p, Len(lit), lit) == 0, for p <= size()
Compare(s, p, lit) == Sub(s, p, Len(lit)) = lit

\* content.find(lit)
Find(s, lit) ==
    LET hits == {i \in 0..(s.cSize - Len(lit)) : Compare(s, i, lit)}
    IN  IF hits = {} THEN NPOS ELSE CHOOSE i \in hits : \A j \in hits : i <= j

\* content.remove_prefix(n).  n > size() is outside the contract; the
\* library then still does data += n, size -= n: for n = npos the view
\* moves one byte back (or, as with any undefined behaviour, the run is
\* lost: see Go), for any other n its size wraps around
remove_prefix(s, n) ==
    IF Halted(s) THEN s
    ELSE IF n = NPOS
    THEN IF s.cStart >= 1
         THEN [s EXCEPT !.cStart = @ - 1, !.cSize = @ + 1, !.rewound = TRUE,
                        !.ub = TRUE]
         ELSE [s EXCEPT !.pc = "undefined"]
    ELSE IF n > s.cSize
    THEN [s EXCEPT !.pc = "undefined"]
    ELSE [s EXCEPT !.cStart = @ + n, !.cSize = @ - n]

\* content.remove_prefix(content.find_first_not_of(WHITESPACE))
SkipWS(s) == remove_prefix(s, FindFirstNotOf(s, WHITESPACE))

\* Fatal with the return value forgotten: the diagnostic is written but
\* the exit status is not set
FatalWithoutStatus(s, msg) ==
    IF Halted(s) THEN s
    ELSE [s EXCEPT !.pc = "fatal", !.errs = Append(@, msg)]

\* std::cerr << message; return 1
Fatal(s, msg) ==
    IF Halted(s) THEN s
    ELSE [s EXCEPT !.pc = "fatal", !.exitStatus = 1, !.errs = Append(@, msg)]

\* an assignment that is not reached once main() has returned
Upd(s, t) == IF Halted(s) THEN s ELSE t

\* std::count(characters.cbegin(), characters.cend(), '\n')
CountNL(chars) == Cardinality({i \in DOMAIN chars : chars[i] = "\n"})

-----------------------------------------------------------------------------
(* The byte source and refillContent *)

NoRead == [fail |-> "none", n |-> 0]

\* what archive_read_open_fd / archive_read_next_header / archive_read_data
\* can answer to the next refillContent call: a failure, or n bytes.  In
\* "whole" mode archive_read_data fills the request unless the entry ends.
ReadResults(s) ==
    LET remaining == Len(s.input) - s.srcPos
        request == BUFFER_SIZE - BLOCK_SIZE
        sizes == IF s.chunking = "whole"
                 THEN {Min(request, remaining)}
                 ELSE {Min(k, remaining) : k \in ShortReads \cup {request}}
    IN  IF s.archive = "freed" THEN {NoRead}
        ELSE {[fail |-> "none", n |-> k] : k \in sizes}
             \cup {[fail |-> "read", n |-> 0]}
             \cup (IF s.archive = "unopened"
                   THEN {[fail |-> "open", n |-> 0], [fail |-> "header", n |-> 0]}
                   ELSE {})

\* the answer of a byte source that fills every request
WholeRead(s) ==
    [fail |-> "none",
     n |-> Min(BUFFER_SIZE - BLOCK_SIZE, Len(s.input) - s.srcPos)]

\* refillContent(content) -> [s: the state after the call, ret: its result]
refillContent(s, r, site) ==
    LET size == s.cSize
        note(ret, got, post) ==
            [site |-> site, pre |-> Window(s), got |-> got, post |-> post,
             ret |-> ret,
             afterEOF |-> s.lastRefill.afterEOF
                          + (IF s.archive = "freed" THEN 1 ELSE 0)]
        \* std::copy(content.cbegin(), content.cend(), buffer)
        copied == [i \in 1..BUFFER_SIZE |->
                     IF i <= size THEN At(s, i - 1) ELSE s.buffer[i]]
        got == [i \in 1..r.n |-> s.input[s.srcPos + i]]
        \* archive_read_data(inputArchive, buffer + content.size(), ...)
        filled == [i \in 1..BUFFER_SIZE |->
                     IF i > size /\ i <= size + r.n THEN got[i - size]
                     ELSE copied[i]]
        called == [s EXCEPT !.refillCalls = @ + 1]
        \* content = std::string_view(buffer, content.size() + bytesRead)
        refilled == [called EXCEPT !.buffer = filled, !.cStart = 0,
                                   !.cSize = size + r.n]
    IN  IF Halted(s) THEN [s |-> s, ret |-> 1]
        ELSE IF s.archive = "freed"
        THEN \* the handle was released by archive_read_free
             [s |-> [called EXCEPT !.pc = "undefined",
                                   !.lastRefill = note(0, <<>>, Window(s))],
              ret |-> 0]
        ELSE IF r.fail = "open"
        THEN [s |-> [called EXCEPT
                       !.archive = "open",
                       !.errs = Append(@, "input error: Invalid data in standard input"),
                       !.lastRefill = note(-1, <<>>, Window(s))],
              ret |-> -1]
        ELSE IF r.fail = "header"
        THEN [s |-> [called EXCEPT
                       !.archive = "open",
                       !.errs = Append(@, "input error: Invalid data in standard input header"),
                       !.lastRefill = note(-1, <<>>, Window(s))],
              ret |-> -1]
        ELSE IF r.fail = "read"
        THEN [s |-> [called EXCEPT !.archive = "open", !.buffer = copied,
                                   !.lastRefill = note(-1, <<>>, Window(s))],
              ret |-> -1]
        ELSE [s |-> [called EXCEPT
                       !.archive = IF r.n = 0 THEN "freed" ELSE "open",
                       !.buffer = filled,
                       !.srcPos = @ + r.n,
                       !.cStart = 0,
                       !.cSize = size + r.n,
                       !.lastRefill = note(r.n, got, Window(refilled)),
                       \* a read that runs past buffer + BUFFER_SIZE
                       !.pc = IF size + r.n > BUFFER_SIZE
                              THEN "undefined" ELSE @],
              ret |-> r.n]

\* the caller's handling of the result (the same at every call site but
\* the first): error, or EOF noted in doneReading, and totalBytes
AfterRefill(rf) ==
    IF rf.ret < 0 THEN Fatal(rf.s, "parser error : File input error")
    ELSE Upd(rf.s, [rf.s EXCEPT !.doneReading = (rf.ret = 0) \/ @,
                                !.totalBytes = @ + rf.ret])

-----------------------------------------------------------------------------
(* main(): the preamble *)

IsQuote(c) == c = "\"" \/ c = "'"

\* content[0..n-1] equals lit, read byte by byte
StartsWith(s, lit) == \A i \in 1..Len(lit) : At(s, i - 1) = lit[i]

\* the optional encoding / standalone attribute of the declaration;
\* second = FALSE for the first of the two blocks, TRUE for the second.
\* -> [s, standalone]
XmlDeclAttr(s, second, standalone) ==
    IF At(s, 0) = "?" THEN [s |-> s, standalone |-> standalone]
    ELSE
    LET nameEndPosition == FindFirstOf(s, {"=", " "}, 0)
        attr2 == Sub(s, 0, nameEndPosition)
        s1 == remove_prefix(s, nameEndPosition)
        s2 == SkipWS(s1)
        s3 == remove_prefix(s2, 1)
        s4 == SkipWS(s3)
        delimiter2 == At(s4, 0)
        s5 == remove_prefix(s4, 1)
        valueEndPosition == Find(s5, <<delimiter2>>)
        isEncoding == attr2 = Lit("encoding")
        isStandalone == attr2 = Lit("standalone")
        accepted == IF second THEN ~standalone /\ isStandalone
                    ELSE isEncoding \/ isStandalone
        s6 == SkipWS(remove_prefix(s5, valueEndPosition + 1))
    IN  IF nameEndPosition = NPOS
        THEN [s |-> Fatal(s, "parser error: Incomplete attribute in XML declaration"),
              standalone |-> standalone]
        ELSE IF ~IsQuote(delimiter2)
        THEN [s |-> Fatal(s4, "parser error: Invalid end delimiter for attribute in XML declaration"),
              standalone |-> standalone]
        ELSE IF valueEndPosition = NPOS
        THEN [s |-> Fatal(s5, "parser error: Incomplete attribute in XML declaration"),
              standalone |-> standalone]
        ELSE IF ~accepted
        THEN [s |-> Fatal(s5, "parser error: Invalid attribute in XML declaration"),
              standalone |-> standalone]
        ELSE [s |-> s6, standalone |-> standalone \/ isStandalone]

\* the XML declaration, if content starts with "<?xml "
XmlDeclaration(s) ==
    IF Halted(s) \/ ~StartsWith(s, Lit("<?xml ")) THEN s
    ELSE
    LET s1 == SkipWS(remove_prefix(s, 5))
        \* parse required version
        nameEndPosition == FindFirstOf(s1, {"=", " "}, 0)
        attr == Sub(s1, 0, nameEndPosition)
        s2 == SkipWS(remove_prefix(s1, nameEndPosition))
        s3 == SkipWS(remove_prefix(s2, 1))
        delimiter == At(s3, 0)
        s4 == remove_prefix(s3, 1)
        valueEndPosition == Find(s4, <<delimiter>>)
        s5 == SkipWS(remove_prefix(remove_prefix(s4, valueEndPosition), 1))
        \* parse optional encoding and standalone attributes
        a1 == XmlDeclAttr(s5, FALSE, FALSE)
        a2 == XmlDeclAttr(a1.s, TRUE, a1.standalone)
    IN  IF ~IsQuote(delimiter)
        THEN Fatal(s3, "parser error: Invalid start delimiter for version in XML declaration")
        ELSE IF valueEndPosition = NPOS
        THEN Fatal(s4, "parser error: Invalid end delimiter for version in XML declaration")
        ELSE IF attr # Lit("version")
        THEN Fatal(s4, "parser error: Missing required first attribute version in XML declaration")
        ELSE SkipWS(remove_prefix(a2.s, 2))

\* the DOCTYPE scan: where the loop leaves p
RECURSIVE DoctypeScan(_, _, _, _, _, _)
DoctypeScan(s, from, depthAngleBrackets, inSingleQuote, inDoubleQuote, inComment) ==
    LET p == FindFirstOf(s, {"<", ">", "'", "\"", "-"}, from)
        c == At(s, p)
        open == c = "<" /\ ~inSingleQuote /\ ~inDoubleQuote
        close == c = ">" /\ ~inSingleQuote /\ ~inDoubleQuote
        d == IF open THEN depthAngleBrackets + 1
             ELSE IF close THEN depthAngleBrackets - 1
             ELSE depthAngleBrackets
        sq == IF ~open /\ ~close /\ c = "'" THEN ~inSingleQuote ELSE inSingleQuote
        dq == IF ~open /\ ~close /\ c = "\"" THEN ~inDoubleQuote ELSE inDoubleQuote
    IN  IF from > s.cSize \/ p = NPOS THEN NPOS
        ELSE IF Compare(s, p, Lit("<!--"))
        THEN DoctypeScan(s, p + 4, depthAngleBrackets, inSingleQuote, inDoubleQuote, TRUE)
        ELSE IF Compare(s, p, Lit("-->"))
        THEN DoctypeScan(s, p + 3, depthAngleBrackets, inSingleQuote, inDoubleQuote, FALSE)
        ELSE IF inComment
        THEN DoctypeScan(s, p + 1, depthAngleBrackets, inSingleQuote, inDoubleQuote, TRUE)
        ELSE IF d = 0 THEN p
        ELSE DoctypeScan(s, p + 1, d, sq, dq, FALSE)

\* the DOCTYPE, if content starts with "<!DOCTYPE "
Doctype(s) ==
    IF Halted(s) \/ ~StartsWith(s, Lit("<!DOCTYPE ")) THEN s
    ELSE
    LET s1 == remove_prefix(s, 9)
        p == DoctypeScan(s1, 0, 1, FALSE, FALSE, FALSE)
    IN  SkipWS(remove_prefix(remove_prefix(s1, p), 1))

\* lines 127-287: the first refill, the preamble, depth and doneReading
Preamble(s, r) ==
    LET rf == refillContent(s, r, "initial")
        s1 == Upd(rf.s, [rf.s EXCEPT !.totalBytes = @ + rf.ret])
        s2 == Doctype(XmlDeclaration(SkipWS(s1)))
    IN  IF rf.ret < 0 THEN Fatal(rf.s, "parser error : File input error")
        ELSE IF rf.ret = 0 THEN Fatal(rf.s, "parser error : Empty file")
        ELSE Upd(s2, [s2 EXCEPT !.depth = 0, !.doneReading = FALSE, !.pc = "loop"])

-----------------------------------------------------------------------------
(* main(): the main loop *)

\* the head of an iteration with the refill put off until the window is
\* empty
LoopHeadStepWhenEmpty(s, r) ==
    IF s.doneReading
    THEN IF s.cSize = 0 THEN [s EXCEPT !.pc = "trailing"]
         ELSE [s EXCEPT !.pc = "dispatch"]
    ELSE IF s.cSize = 0
    THEN LET s1 == AfterRefill(refillContent(s, r, "loop"))
         IN  Upd(s1, [s1 EXCEPT !.pc = "dispatch"])
    ELSE [s EXCEPT !.pc = "dispatch"]

\* the head of an iteration that refills a short window also after the
\* end of the input has been seen
LoopHeadStepAfterEOF(s, r) ==
    IF s.doneReading /\ s.cSize = 0 THEN [s EXCEPT !.pc = "trailing"]
    ELSE IF s.cSize < BLOCK_SIZE
    THEN LET s1 == AfterRefill(refillContent(s, r, "loop"))
         IN  Upd(s1, [s1 EXCEPT !.pc = "dispatch"])
    ELSE [s EXCEPT !.pc = "dispatch"]

\* lines 289-303: the head of an iteration
LoopHeadStep(s, r) ==
    IF s.doneReading
    THEN IF s.cSize = 0 THEN [s EXCEPT !.pc = "trailing"]
         ELSE [s EXCEPT !.pc = "dispatch"]
    ELSE IF s.cSize < BLOCK_SIZE
    THEN LET s1 == AfterRefill(refillContent(s, r, "loop"))
         IN  Upd(s1, [s1 EXCEPT !.pc = "dispatch"])
    ELSE [s EXCEPT !.pc = "dispatch"]

\* whether the head of the iteration calls refillContent
LoopHeadRefills(s) == ~s.doneReading /\ s.cSize < BLOCK_SIZE

\* the branch the if-chain of lines 304-590 takes
Dispatch(s) ==
    IF At(s, 0) = "&" THEN "entity"
    ELSE IF At(s, 0) # "<" THEN "text"
    ELSE IF At(s, 1) = "!" /\ At(s, 2) = "-" /\ At(s, 3) = "-" THEN "comment"
    ELSE IF /\ At(s, 1) = "!" /\ At(s, 2) = "[" /\ At(s, 3) = "C"
            /\ At(s, 4) = "D" /\ At(s, 5) = "A" /\ At(s, 6) = "T"
            /\ At(s, 7) = "A" /\ At(s, 8) = "[" THEN "cdata"
    ELSE IF At(s, 1) = "?" THEN "pi"
    ELSE IF At(s, 1) = "/" THEN "endtag"
    ELSE "starttag"

Loop(s) == Upd(s, [s EXCEPT !.pc = "loop"])

\* a character entity reference where an unrecognized reference is taken
\* as one character up to its ;
EntityStepToSemicolon(s) ==
    LET semicolon == FindFirstOf(s, {";"}, 0)
        escapedSize ==
            IF At(s, 1) = "l" /\ At(s, 2) = "t" /\ At(s, 3) = ";" THEN 4
            ELSE IF At(s, 1) = "g" /\ At(s, 2) = "t" /\ At(s, 3) = ";" THEN 4
            ELSE IF /\ At(s, 1) = "a" /\ At(s, 2) = "m" /\ At(s, 3) = "p"
                    /\ At(s, 4) = ";" THEN 5
            ELSE IF semicolon # NPOS THEN semicolon + 1
            ELSE 1
        s1 == remove_prefix(s, escapedSize)
    IN  Upd(s1, [s1 EXCEPT !.textSize = AddInt(@, 1), !.pc = "loop"])

\* lines 305-325: a character entity reference
EntityStep(s) ==
    LET escapedSize ==
            IF At(s, 1) = "l" /\ At(s, 2) = "t" /\ At(s, 3) = ";" THEN 4
            ELSE IF At(s, 1) = "g" /\ At(s, 2) = "t" /\ At(s, 3) = ";" THEN 4
            ELSE IF /\ At(s, 1) = "a" /\ At(s, 2) = "m" /\ At(s, 3) = "p"
                    /\ At(s, 4) = ";" THEN 5
            ELSE 1
        s1 == remove_prefix(s, escapedSize)
    IN  Loop(Upd(s1, [s1 EXCEPT !.textSize = AddInt(@, 1)]))

\* lines 327-334: characters up to the next < or &
TextStep(s) ==
    LET characterEndPosition == FindFirstOf(s, {"<", "&"}, 0)
        characters == Sub(s, 0, characterEndPosition)
        s1 == [s EXCEPT !.loc = AddInt(@, CountNL(characters)),
                        !.textSize = AddInt(@, Len(characters))]
    IN  Loop(remove_prefix(s1, Len(characters)))

\* lines 339-356 (and 365-382, 597-614): find the terminator, with one
\* refill and a second search when the window does not hold it.
\* -> [s, tagEndPosition]
FindWithRetry(s, terminator, r, site, msg) ==
    LET first == Find(s, terminator)
        s1 == AfterRefill(refillContent(s, r, site))
        second == Find(s1, terminator)
    IN  IF first # NPOS THEN [s |-> s, tagEndPosition |-> first]
        ELSE IF second = NPOS
        THEN [s |-> Fatal(s1, msg), tagEndPosition |-> NPOS]
        ELSE [s |-> s1, tagEndPosition |-> second]

\* an XML comment that is counted as a comment element is
CommentStepCounted(s, r) ==
    LET s1 == remove_prefix(s, 4)
        f == FindWithRetry(s1, Lit("-->"), r, "comment",
                           "parser error : Unterminated XML comment")
        s2 == Upd(f.s, [f.s EXCEPT !.commentCount = AddInt(@, 1)])
    IN  Loop(remove_prefix(remove_prefix(s2, f.tagEndPosition), 3))

\* lines 336-360: an XML comment
CommentStep(s, r) ==
    LET s1 == remove_prefix(s, 4)
        f == FindWithRetry(s1, Lit("-->"), r, "comment",
                           "parser error : Unterminated XML comment")
    IN  Loop(remove_prefix(remove_prefix(f.s, f.tagEndPosition), 3))

\* CDATA with its size counted and its newlines not
CDataStepNoLoc(s, r) ==
    LET s1 == remove_prefix(s, 9)
        f == FindWithRetry(s1, Lit("]]>"), r, "cdata",
                           "parser error : Unterminated CDATA")
        characters == Sub(f.s, 0, f.tagEndPosition)
        s2 == Upd(f.s, [f.s EXCEPT !.textSize = AddInt(@, Len(characters))])
        s3 == remove_prefix(remove_prefix(s2, f.tagEndPosition), 3)
    IN  Upd(s3, [s3 EXCEPT !.pc = "loop"])

\* lines 363-388: CDATA
CDataStep(s, r) ==
    LET s1 == remove_prefix(s, 9)
        f == FindWithRetry(s1, Lit("]]>"), r, "cdata",
                           "parser error : Unterminated CDATA")
        characters == Sub(f.s, 0, f.tagEndPosition)
        s2 == Upd(f.s, [f.s EXCEPT !.textSize = AddInt(@, Len(characters)),
                                   !.loc = AddInt(@, CountNL(characters))])
    IN  Loop(remove_prefix(remove_prefix(s2, f.tagEndPosition), 3))

\* whether the comment or CDATA branch calls refillContent
RetryRefills(s) ==
    \/ Dispatch(s) = "comment" /\ ~Halted(remove_prefix(s, 4))
                               /\ Find(remove_prefix(s, 4), Lit("-->")) = NPOS
    \/ Dispatch(s) = "cdata" /\ ~Halted(remove_prefix(s, 9))
                             /\ Find(remove_prefix(s, 9), Lit("]]>")) = NPOS

\* a processing instruction that is given the retry of a comment
PIStepWithRetry(s) ==
    LET s1 == remove_prefix(s, 2)
        f == FindWithRetry(s1, Lit("?>"), WholeRead(s1), "pi",
                           "parser error: Incomplete XML declaration")
        nameEndPosition == FindFirstOf(f.s, NAMEEND, 0)
    IN  IF ~Halted(f.s) /\ nameEndPosition = NPOS
        THEN Fatal(f.s, "parser error : Unterminated processing instruction")
        ELSE Loop(remove_prefix(remove_prefix(f.s, f.tagEndPosition), 2))

\* lines 390-408: a processing instruction
PIStep(s) ==
    LET s1 == remove_prefix(s, 2)
        tagEndPosition == Find(s1, Lit("?>"))
        nameEndPosition == FindFirstOf(s1, NAMEEND, 0)
    IN  IF tagEndPosition = NPOS
        THEN Fatal(s1, "parser error: Incomplete XML declaration")
        ELSE IF nameEndPosition = NPOS
        THEN Fatal(s1, "parser error : Unterminated processing instruction")
        ELSE Loop(remove_prefix(remove_prefix(s1, tagEndPosition), 2))

\* lines 417-427 (and 450-460, 527-537): the end of a qualified name.
\* The test against content.size() never holds: find_first_of answers a
\* position below size() or npos.  -> [nameEndPosition, colonPosition]
NameEnd(s) ==
    LET first == FindFirstOf(s, NAMEEND, 0)
    IN  IF At(s, first) = ":"
        THEN [nameEndPosition |-> FindFirstOf(s, NAMEEND, first + 1),
              colonPosition |-> first]
        ELSE [nameEndPosition |-> first, colonPosition |-> 0]

\* qName.substr(colonPosition ? colonPosition + 1 : 0)
LocalName(qName, colonPosition) ==
    LET from == IF colonPosition # 0 THEN colonPosition + 1 ELSE 0
    IN  [i \in 1..Max(Len(qName) - from, 0) |-> qName[from + i]]

\* an end tag that leaves the end of the main loop to the loop head
EndTagStepNoBreak(s) ==
    LET s1 == remove_prefix(s, 2)
        n == NameEnd(s1)
        qName == Sub(s1, 0, n.nameEndPosition)
        s2 == remove_prefix(SkipWS(remove_prefix(s1, n.nameEndPosition)), 1)
    IN  IF At(s1, 0) = ":"
        THEN Fatal(s1, "parser error : Invalid end tag name")
        ELSE IF n.nameEndPosition = s1.cSize
        THEN Fatal(s1, "parser error : Unterminated end tag")
        ELSE IF qName = <<>>
        THEN Fatal(s1, "parser error: EndTag: invalid element name")
        ELSE Loop(Upd(s2, [s2 EXCEPT !.depth = AddInt(@, -1)]))

\* an end tag whose name is not looked at
EndTagStepAnyName(s) ==
    LET s1 == remove_prefix(s, 2)
        n == NameEnd(s1)
        s2 == remove_prefix(SkipWS(remove_prefix(s1, n.nameEndPosition)), 1)
        s3 == Upd(s2, [s2 EXCEPT !.depth = AddInt(@, -1)])
    IN  Upd(s3, [s3 EXCEPT !.pc = IF s3.depth = 0 THEN "trailing" ELSE "loop"])

\* lines 410-441: an end tag
EndTagStep(s) ==
    LET s1 == remove_prefix(s, 2)
        n == NameEnd(s1)
        qName == Sub(s1, 0, n.nameEndPosition)
        s2 == remove_prefix(SkipWS(remove_prefix(s1, n.nameEndPosition)), 1)
        s3 == Upd(s2, [s2 EXCEPT !.depth = AddInt(@, -1)])
    IN  IF At(s1, 0) = ":"
        THEN Fatal(s1, "parser error : Invalid end tag name")
        ELSE IF n.nameEndPosition = s1.cSize
        THEN Fatal(s1, "parser error : Unterminated end tag")
        ELSE IF qName = <<>>
        THEN Fatal(s1, "parser error: EndTag: invalid element name")
        ELSE Upd(s3, [s3 EXCEPT !.pc = IF s3.depth = 0 THEN "trailing" ELSE "loop"])

\* lines 486-524: an xmlns declaration
NamespaceStep(s) ==
    LET s1 == remove_prefix(s, 5)
        found == Find(s1, <<"=">>)
        hasPrefix == At(s1, 0) = ":"
        s2 == IF hasPrefix THEN remove_prefix(s1, 1) ELSE s1
        nameEndPosition == IF hasPrefix THEN found - 1 ELSE found
        s3 == SkipWS(remove_prefix(remove_prefix(s2, nameEndPosition), 1))
        delimiter == At(s3, 0)
        s4 == remove_prefix(s3, 1)
        valueEndPosition == Find(s4, <<delimiter>>)
    IN  IF found = NPOS \/ (~Halted(s3) /\ s3.cSize = 0) \/ ~IsQuote(delimiter)
        THEN Fatal(IF found = NPOS THEN s1 ELSE s3,
                   "parser error : incomplete namespace")
        ELSE IF valueEndPosition = NPOS
        THEN Fatal(s4, "parser error : incomplete namespace")
        ELSE SkipWS(remove_prefix(remove_prefix(s4, valueEndPosition), 1))

\* an attribute, with the first url kept
AttributeStepFirstUrl(s, inEscape) ==
    LET n == NameEnd(s)
        qName == Sub(s, 0, n.nameEndPosition)
        localName == LocalName(qName, n.colonPosition)
        s1 == SkipWS(remove_prefix(s, n.nameEndPosition))
        s2 == SkipWS(remove_prefix(s1, 1))
        delimiter == At(s2, 0)
        s3 == remove_prefix(s2, 1)
        valueEndPosition == Find(s3, <<delimiter>>)
        value == Sub(s3, 0, valueEndPosition)
        s4 == IF localName = Lit("url") /\ s3.url = <<>>
              THEN Upd(s3, [s3 EXCEPT !.url = value]) ELSE s3
    IN  IF n.nameEndPosition = s.cSize
        THEN Fatal(s, "parser error : Empty attribute name")
        ELSE IF ~Halted(s1) /\ s1.cSize = 0
        THEN Fatal(s1, "parser error : attribute incomplete attribute")
        ELSE IF At(s1, 0) # "="
        THEN Fatal(s1, "parser error : attribute missing =")
        ELSE IF ~IsQuote(delimiter)
        THEN Fatal(s2, "parser error : attribute missing delimiter")
        ELSE IF valueEndPosition = NPOS
        THEN Fatal(s3, "parser error : attribute missing delimiter")
        ELSE SkipWS(remove_prefix(remove_prefix(s4, valueEndPosition), 1))

\* lines 527-574: an attribute
AttributeStep(s, inEscape) ==
    LET n == NameEnd(s)
        qName == Sub(s, 0, n.nameEndPosition)
        localName == LocalName(qName, n.colonPosition)
        s1 == SkipWS(remove_prefix(s, n.nameEndPosition))
        s2 == SkipWS(remove_prefix(s1, 1))
        delimiter == At(s2, 0)
        s3 == remove_prefix(s2, 1)
        valueEndPosition == Find(s3, <<delimiter>>)
        value == Sub(s3, 0, valueEndPosition)
        s4 == IF localName = Lit("url")
              THEN Upd(s3, [s3 EXCEPT !.url = value]) ELSE s3
    IN  IF n.nameEndPosition = s.cSize
        THEN Fatal(s, "parser error : Empty attribute name")
        ELSE IF ~Halted(s1) /\ s1.cSize = 0
        THEN Fatal(s1, "parser error : attribute incomplete attribute")
        ELSE IF At(s1, 0) # "="
        THEN Fatal(s1, "parser error : attribute missing =")
        ELSE IF ~IsQuote(delimiter)
        THEN Fatal(s2, "parser error : attribute missing delimiter")
        ELSE IF valueEndPosition = NPOS
        THEN Fatal(s3, "parser error : attribute missing delimiter")
        ELSE SkipWS(remove_prefix(remove_prefix(s4, valueEndPosition), 1))

\* lines 484-576: the attributes and namespace declarations of a start tag
RECURSIVE Attributes(_, _, _)
Attributes(s, inEscape, fuel) ==
    IF Halted(s) \/ ~xmlNameMask(At(s, 0)) THEN s
    ELSE IF fuel = 0 THEN [s EXCEPT !.pc = "undefined"]
    ELSE IF /\ StartsWith(s, Lit("xmlns"))
            /\ (At(s, 5) = ":" \/ At(s, 5) = "=")
    THEN Attributes(NamespaceStep(s), inEscape, fuel - 1)
    ELSE Attributes(AttributeStep(s, inEscape), inEscape, fuel - 1)

\* lines 468-481: the element counters
CountElement(s, localName) ==
    IF localName = Lit("expr") THEN [s EXCEPT !.exprCount = AddInt(@, 1)]
    ELSE IF localName = Lit("decl") THEN [s EXCEPT !.declCount = AddInt(@, 1)]
    ELSE IF localName = Lit("comment") THEN [s EXCEPT !.commentCount = AddInt(@, 1)]
    ELSE IF localName = Lit("function") THEN [s EXCEPT !.functionCount = AddInt(@, 1)]
    ELSE IF localName = Lit("unit") THEN [s EXCEPT !.unitCount = AddInt(@, 1)]
    ELSE IF localName = Lit("class") THEN [s EXCEPT !.classCount = AddInt(@, 1)]
    ELSE s

\* the end of a start tag without the test that ends the main loop at a
\* self-closing root
StartTagCloseNoBreak(s) ==
    IF Halted(s) THEN s
    ELSE IF At(s, 0) = ">"
    THEN LET s1 == remove_prefix(s, 1)
         IN  Upd(s1, [s1 EXCEPT !.depth = AddInt(@, 1), !.pc = "loop"])
    ELSE IF At(s, 0) = "/" /\ At(s, 1) = ">"
    THEN LET s1 == remove_prefix(s, 2)
         IN  Upd(s1, [s1 EXCEPT !.pc = "loop"])
    ELSE Upd(s, [s EXCEPT !.pc = "loop"])

\* lines 577-586: the end of a start tag
StartTagClose(s) ==
    IF Halted(s) THEN s
    ELSE IF At(s, 0) = ">"
    THEN LET s1 == remove_prefix(s, 1)
         IN  Loop(Upd(s1, [s1 EXCEPT !.depth = AddInt(@, 1)]))
    ELSE IF At(s, 0) = "/" /\ At(s, 1) = ">"
    THEN LET s1 == remove_prefix(s, 2)
         IN  Upd(s1, [s1 EXCEPT !.pc = IF s1.depth = 0 THEN "trailing" ELSE "loop"])
    ELSE Loop(s)

\* lines 443-586: a start tag
StartTagStep(s) ==
    LET s1 == remove_prefix(s, 1)
        n == NameEnd(s1)
        qName == Sub(s1, 0, n.nameEndPosition)
        localName == LocalName(qName, n.colonPosition)
        inEscape == localName = Lit("escape")
        s2 == Upd(s1, CountElement(s1, localName))
        s3 == SkipWS(remove_prefix(s2, n.nameEndPosition))
    IN  IF At(s1, 0) = ":"
        THEN Fatal(s1, "parser error : Invalid start tag name")
        ELSE IF n.nameEndPosition = s1.cSize
        THEN Fatal(s1, "parser error : Unterminated start tag")
        ELSE IF qName = <<>>
        THEN Fatal(s1, "parser error: StartTag: invalid element name")
        ELSE StartTagClose(Attributes(s3, inEscape, BUFFER_SIZE))

-----------------------------------------------------------------------------
(* main(): after the main loop *)

\* content.remove_prefix(find_first_not_of(WHITESPACE) == npos ? size() : ...)
TrimWS(s) ==
    LET p == FindFirstNotOf(s, WHITESPACE)
    IN  remove_prefix(s, IF p = NPOS THEN s.cSize ELSE p)

\* line 592
TrailingStep(s) ==
    LET s1 == TrimWS(s) IN Upd(s1, [s1 EXCEPT !.pc = "tail"])

\* the condition of the while of line 593
TrailingComment(s) == s.cSize # 0 /\ StartsWith(s, Lit("<!--"))

\* lines 594-620: a comment after the root element
TrailingCommentStep(s, r) ==
    LET s1 == remove_prefix(s, 4)
        f == FindWithRetry(s1, Lit("-->"), r, "trailing",
                           "parser error : Unterminated XML comment")
    IN  TrimWS(remove_prefix(remove_prefix(f.s, f.tagEndPosition), 3))

TrailingRefills(s) ==
    /\ TrailingComment(s)
    /\ ~Halted(remove_prefix(s, 4))
    /\ Find(remove_prefix(s, 4), Lit("-->")) = NPOS

\* the report with files = unitCount - 1, without the floor of 1
ReportStepNoFloor(s) ==
    IF s.cSize # 0
    THEN Fatal(s, "parser error : extra content at end of document")
    ELSE [s EXCEPT !.files = AddInt(s.unitCount, -1),
                   !.reported = TRUE,
                   !.exitStatus = 0,
                   !.pc = "done"]

\* lines 622-651: the check for extra content, and the report
ReportStep(s) ==
    IF s.cSize # 0
    THEN Fatal(s, "parser error : extra content at end of document")
    ELSE [s EXCEPT !.files = Max(AddInt(s.unitCount, -1), 1),
                   !.reported = TRUE,
                   !.exitStatus = 0,
                   !.pc = "done"]

-----------------------------------------------------------------------------
(* Documents.  A document is a list of tokens (the tree a DOM parser would *)
(* build, flattened in document order); the input is its rendering.        *)

Tok(k, name, attrs, body) == [k |-> k, name |-> name, attrs |-> attrs, body |-> body]
Attr(name, value) == [name |-> name, value |-> value]

\* n copies of byte b
Rep(b, n) == [i \in 1..n |-> b]

RECURSIVE Flatten(_)
Flatten(ss) == IF ss = <<>> THEN <<>> ELSE Head(ss) \o Flatten(Tail(ss))

RenderAttr(a) == <<" ">> \o a.name \o <<"=", "\"">> \o a.value \o <<"\"">>
RenderAttrs(as) == Flatten([i \in DOMAIN as |-> RenderAttr(as[i])])

RenderTok(t) ==
    CASE t.k = "stag" -> <<"<">> \o t.name \o RenderAttrs(t.attrs) \o <<">">>
      [] t.k = "empty" -> <<"<">> \o t.name \o RenderAttrs(t.attrs) \o <<"/", ">">>
      [] t.k = "etag" -> <<"<", "/">> \o t.name \o <<">">>
      [] t.k = "comment" -> Lit("<!--") \o t.body \o Lit("-->")
      [] t.k = "cdata" -> Lit("<![CDATA[") \o t.body \o Lit("]]>")
      [] t.k = "pi" -> <<"<", "?">> \o t.body \o Lit("?>")
      [] t.k = "xmldecl" -> Lit("<?xml ") \o t.body \o Lit("?>")
      [] t.k = "doctype" -> Lit("<!DOCTYPE ") \o t.body \o <<">">>
      [] OTHER -> t.body     \* "text", "entity", "space"

Render(toks) == Flatten([i \in DOMAIN toks |-> RenderTok(toks[i])])

\* the pieces element content is put together from
Item_text ==
    << Tok("text", <<>>, <<>>, <<"a","\n","b","\n","c">>) >>
Item_entities ==
    << Tok("entity", <<>>, <<>>, <<"&","l","t",";">>),
       Tok("entity", <<>>, <<>>, <<"&","g","t",";">>),
       Tok("entity", <<>>, <<>>, <<"&","a","m","p",";">>),
       Tok("entity", <<>>, <<>>, <<"&">>),
       Tok("text", <<>>, <<>>, <<"z","z","z",";">>) >>
Item_comment ==
    << Tok("comment", <<>>, <<>>, <<"<","u",">","\n">>) >>
Item_cdata ==
    << Tok("cdata", <<>>, <<>>, <<"x","\n","<","y">>) >>
Item_pi ==
    << Tok("pi", <<>>, <<>>, <<"p"," ","q","\n">>) >>
Item_emptyExpr ==
    << Tok("empty", <<"e","x","p","r">>, <<>>, <<>>) >>
Item_decl ==
    << Tok("stag", <<"d","e","c","l">>, <<Attr(<<"a">>, <<"x","\n",">">>)>>, <<>>),
       Tok("text", <<>>, <<>>, <<"d">>),
       Tok("etag", <<"d","e","c","l">>, <<>>, <<>>) >>
Item_function ==
    << Tok("stag", <<"c",":","f","u","n","c","t","i","o","n">>, <<>>, <<>>),
       Tok("text", <<>>, <<>>, <<"\n">>),
       Tok("etag", <<"c",":","f","u","n","c","t","i","o","n">>, <<>>, <<>>) >>
Item_classes ==
    << Tok("stag", <<"c","l","a","s","s">>, <<>>, <<>>),
       Tok("empty", <<"c","o","m","m","e","n","t">>, <<>>, <<>>),
       Tok("etag", <<"c","l","a","s","s">>, <<>>, <<>>) >>
Item_innerUnit ==
    << Tok("empty", <<"u","n","i","t">>, <<Attr(<<"u","r","l">>, <<"u">>)>>, <<>>) >>
Item_units ==
    << Tok("stag", <<"u","n","i","t","s">>, <<>>, <<>>),
       Tok("etag", <<"u","n","i","t","s">>, <<>>, <<>>) >>
Items ==
    { Item_text,
      Item_entities,
      Item_comment,
      Item_cdata,
      Item_pi,
      Item_emptyExpr,
      Item_decl,
      Item_function,
      Item_classes,
      Item_innerUnit,
      Item_units }

\* how many items the content of the root element has at most
MaxItems == 2

RECURSIVE Contents(_)
Contents(n) ==
    IF n = 0 THEN {<<>>}
    ELSE Contents(n - 1)
         \cup {c \o i : c \in Contents(n - 1), i \in Items}

\* text that shifts the content against the window's refills
Pads == {0, BUFFER_SIZE - BLOCK_SIZE - 20, BUFFER_SIZE - BLOCK_SIZE}
Pad(n) == IF n = 0 THEN <<>> ELSE <<Tok("text", <<>>, <<>>, Rep("t", n))>>

Root_unit ==
    Tok("stag", <<"u","n","i","t">>, <<Attr(<<"u","r","l">>, <<"r">>)>>, <<>>)
End_unit ==
    Tok("etag", <<"u","n","i","t">>, <<>>, <<>>)
Root_a ==
    Tok("stag", <<"a">>, <<Attr(<<"x","m","l","n","s",":","c">>, <<"n">>)>>, <<>>)
End_a ==
    Tok("etag", <<"a">>, <<>>, <<>>)
Open_a ==
    Tok("stag", <<"a">>, <<>>, <<>>)
Empty_unit ==
    Tok("empty", <<"u","n","i","t">>, <<>>, <<>>)
XmlDecl ==
    Tok("xmldecl", <<>>, <<>>, <<"v","e","r","s","i","o","n","=","\"","1","\"">>)
XmlDeclLong ==
    Tok("xmldecl", <<>>, <<>>, <<"v","e","r","s","i","o","n","=","\"","1","\""," ","e","n","c","o","d","i","n","g","=","\"","U","\""," ","s","t","a","n","d","a","l","o","n","e","=","'","y","'">>)
DocType ==
    Tok("doctype", <<>>, <<>>, <<"a"," ","[","<","b"," ","'",">","'",">","]">>)
Space ==
    Tok("space", <<>>, <<>>, <<"\n">>)
TailComment ==
    Tok("comment", <<>>, <<>>, <<"t">>)

\* a url attribute with a namespace prefix after one without
PrefixedUrl ==
    <<Root_unit, Tok("empty", <<"b">>, <<Attr(<<"c",":","u","r","l">>, <<"z">>)>>, <<>>), End_unit>>

\* a namespace declaration of the prefix url, and url as a value
NamespaceUrl ==
    <<Tok("stag", <<"a">>, <<Attr(<<"x","m","l","n","s",":","u","r","l">>, <<"n">>), Attr(<<"b">>, <<"u","r","l">>)>>, <<>>), End_a>>

\* well-formed documents: a root element around padding and contents
Wrapped(n, c) ==
    { <<Root_unit>> \o Pad(n) \o c \o <<End_unit>>,
      <<Root_a>> \o Pad(n) \o c \o <<End_a>> }

\* well-formed documents with a prolog, trailing material, or a token
\* longer than a block.  White space that follows a comment before the
\* root element is a text run to the main loop, and is listed as one.
Decorated ==
    { <<Empty_unit>>,
      <<Tok("empty", <<"a">>, <<>>, <<>>)>>,
      <<Tok("stag", <<"u","n","i","t">>, <<>>, <<>>), Empty_unit, Empty_unit, Empty_unit, Empty_unit, End_unit>>,
      <<Open_a>> \o Item_entities \o <<End_a>>,
      <<XmlDecl, Space, Open_a, End_a, Space>>,
      <<TailComment, Tok("text", <<>>, <<>>, <<"\n">>), Open_a, End_a>>,
      <<XmlDeclLong, Space, Open_a, End_a>>,
      <<XmlDecl, DocType, Space, Open_a>> \o Item_text \o <<End_a, Space, TailComment, Space>>,
      <<Open_a, Tok("comment", <<>>, <<>>, Rep("c", BUFFER_SIZE - 5)), Empty_unit, End_a>>,
      <<Open_a, Tok("comment", <<>>, <<>>, Rep("c", BLOCK_SIZE + 2)), Tok("comment", <<>>, <<>>, Rep("d", BUFFER_SIZE + BLOCK_SIZE)), Empty_unit, End_a>>,
      <<Open_a, Tok("text", <<>>, <<>>, Rep("t", BUFFER_SIZE - 2 * BLOCK_SIZE - 7)),
        Tok("empty", Lit("unit"), <<Attr(Lit("url"), Rep("v", BLOCK_SIZE))>>, <<>>),
        Tok("empty", <<"e","x","p","r">>, <<>>, <<>>), End_a>>,
      <<Open_a, Tok("cdata", <<>>, <<>>, Rep("\n", BUFFER_SIZE - 5)), Empty_unit, End_a>>,
      PrefixedUrl, NamespaceUrl }

Trees ==
    UNION {Wrapped(n, c) : n \in Pads, c \in Contents(MaxItems)} \cup Decorated


\* a DOCTYPE whose bracket depth never returns to 0
UnterminatedDoctypes ==
    { <<"<","!","D","O","C","T","Y","P","E"," ","a"," ","<","u","n","i","t","/",">">>,
      <<"<","!","D","O","C","T","Y","P","E"," ","a"," ","[","<","b",">">> }

\* a comment, a CDATA section and a processing instruction that never end
UnterminatedSections ==
    { <<"<","a",">","<","!","-","-","c">>,
      <<"<","a",">","<","!","[","C","D","A","T","A","[","c">>,
      <<"<","a",">","<","?","p"," ","q">> }

\* end tags with an empty name or a name that starts with a colon
InvalidEndTags ==
    { <<"<","a",">","<","/",">">>,
      <<"<","a",">","<","/",":","a",">">>,
      <<"<","a",">","<","/"," ","a",">">> }

\* start tags with an attribute that is not name="value" or name='value'
MalformedAttributes ==
    { <<"<","a"," ","b",">","<","/","a",">">>,
      <<"<","a"," ","b","=","c",">","<","/","a",">">>,
      <<"<","a"," ","b","=","\"","c",">","<","/","a",">">>,
      <<"<","a"," ","b","=","\"","c","'",">","<","/","a",">">>,
      <<"<","a"," ","x","m","l","n","s","=","\"","n",">","<","/","a",">">>,
      <<"<","a"," ","x","m","l","n","s",":","c",">","<","b"," ","d","=","\"","e","\"",">","<","/","a",">">> }

\* XML declarations outside the grammar: version absent, version not first,
\* another attribute name, no =, a closing quote of the other kind
MalformedDeclarations ==
    { <<"<","?","x","m","l"," ","e","n","c","o","d","i","n","g","=","\"","U","\"","?",">","<","a","/",">">>,
      <<"<","?","x","m","l"," ","e","n","c","o","d","i","n","g","=","\"","U","\""," ","v","e","r","s","i","o","n","=","\"","1","\"","?",">","<","a","/",">">>,
      <<"<","?","x","m","l"," ","v","e","r","s","i","o","n","=","\"","1","\""," ","f","o","o","=","\"","2","\"","?",">","<","a","/",">">>,
      <<"<","?","x","m","l"," ","v","e","r","s","i","o","n"," ","x","\"","1","\"","?",">","<","a","/",">">>,
      <<"<","?","x","m","l"," ","v","e","r","s","i","o","n","=","'","1","\"","?",">","<","a","/",">">>,
      <<"<","?","x","m","l"," ","v","e","r","s","i","o","n","=","\"","1","\""," ","e","n","c","o","d","i","n","g"," ","\"","U","\"","?",">","<","a","/",">">> }

\* inputs that begin with a DOCTYPE: plain, with brackets in quotes and in
\* a comment, and with --> where no comment is open (the name a-- before >)
Doctypes ==
    { <<"<","!","D","O","C","T","Y","P","E"," ","a",">","<","a","/",">">>,
      <<"<","!","D","O","C","T","Y","P","E"," ","a"," ","[","<","!","E","L","E","M","E","N","T"," ","b"," ","'",">","'"," ","\"","<","\"",">","]",">","\n","<","a","/",">">>,
      <<"<","!","D","O","C","T","Y","P","E"," ","a"," ","[","<","!","-","-"," ",">","'"," ","-","-",">","]",">","<","a","/",">">>,
      <<"<","!","D","O","C","T","Y","P","E"," ","a","-","-",">","<","a","-","-","/",">">> }

\* start tags and end tags that are not terminated: the input ends in the
\* name, or what follows the name and the attributes is not > (or />)
UnterminatedTags ==
    { <<"<","a",">","<","b">>,
      <<"<","a",">","<","/","a">>,
      <<"<","a",">","<","b"," ","c","=","\"","d","\"">>,
      <<"<","a",">","<","b"," ","?",">","<","/","a",">">>,
      <<"<","a",">","<","b","/"," ",">","<","/","a",">">>,
      <<"<","a",">","<","/","a"," ","?",">">> }

\* a complete root element followed by more than white space and comments
ExtraContent ==
    { <<"<","a",">","<","/","a",">","x">>,
      <<"<","a",">","<","/","a",">"," ","<","b","/",">">>,
      <<"<","a",">","<","/","a",">">> \o Rep(" ", BUFFER_SIZE - BLOCK_SIZE) \o <<"x">> }

\* a document with a processing instruction longer than a block, placed so
\* that the window it is dispatched in ends inside it
CutInstruction ==
    <<"<","a",">">> \o Rep("t", BUFFER_SIZE - 2 * BLOCK_SIZE - 4) \o <<"<","?","p"," ">>
    \o Rep("q", BLOCK_SIZE + 4) \o <<"?",">","<","/","a",">">>

\* inputs that are no document: what is left of one when the stream ends
\* early, and some that never were one
Prefixes(bytes) == {SubSeq(bytes, 1, n) : n \in 1..(Len(bytes) - 1)}
Broken ==
    Prefixes(Render(<<XmlDecl, DocType, Root_unit>> \o Item_comment \o Item_cdata
                    \o <<End_unit, TailComment>>))
    \cup { <<"<","/","a",">">>,
            <<" ","\n">>,
            <<"<","a",">","<","/","a",">","<","/","a",">">> }
    \cup UnterminatedDoctypes \cup UnterminatedSections \cup InvalidEndTags
    \cup MalformedAttributes \cup ExtraContent \cup {CutInstruction} \cup UnterminatedTags \cup MalformedDeclarations \cup Doctypes

-----------------------------------------------------------------------------
(* The run *)

Blank ==
    [ input |-> <<>>, tree |-> <<>>, chunking |-> "whole",
      archive |-> "unopened", srcPos |-> 0,
      buffer |-> [i \in 1..BUFFER_SIZE |-> Nul], cStart |-> 0, cSize |-> 0,
      url |-> <<>>, textSize |-> 0, loc |-> 0, exprCount |-> 0,
      functionCount |-> 0, classCount |-> 0, unitCount |-> 0,
      declCount |-> 0, commentCount |-> 0, totalBytes |-> 0,
      depth |-> 0, doneReading |-> FALSE, pc |-> "start",
      exitStatus |-> -1, reported |-> FALSE, files |-> 0, errs |-> <<>>,
      rewound |-> FALSE, refillCalls |-> 0,
      lastRefill |-> [site |-> "none", pre |-> <<>>, got |-> <<>>,
                      post |-> <<>>, ret |-> 0, afterEOF |-> 0],
      ub |-> FALSE ]

\* the state main() starts in, for a document or a broken input
StartOf(t, bytes, mode) ==
    [Blank EXCEPT !.input = bytes, !.tree = t, !.chunking = mode]

Inputs ==
    {[tree |-> t, bytes |-> Render(t)] : t \in Trees}
    \cup {[tree |-> <<>>, bytes |-> b] : b \in Broken}

Init ==
    \E i \in Inputs : InitAs(StartOf(i.tree, i.bytes, "whole"))

\* short documents, for a byte source that answers a read with fewer
\* bytes than were asked for
ShortTrees ==
    {<<Open_a>> \o c \o <<End_a>> : c \in Contents(1)}
    \cup {<<Empty_unit>>, <<XmlDecl, Space, Open_a, End_a, Space, TailComment>>}

InitChunked ==
    \E t \in ShortTrees : InitAs(StartOf(t, Render(t), "short"))

\* documents whose character data is longer than the largest int: one more
\* byte of text, or one more newline of text and CDATA, than INT_MAX
LongTrees ==
    { <<Open_a, Tok("text", <<>>, <<>>, Rep("t", INT_MAX + 1)), End_a>>,
      <<Open_a, Tok("text", <<>>, <<>>, Rep("\n", INT_MAX - 1)),
        Tok("cdata", <<>>, <<>>, Rep("\n", 2)), End_a>> }

InitLong ==
    \E t \in LongTrees \cup ShortTrees :
        InitAs(StartOf(t, Render(t), "whole"))

Start ==
    /\ pc = "start"
    /\ \E r \in ReadResults(Cur) : Go(Preamble(Cur, r))

LoopHead ==
    /\ pc = "loop"
    /\ \E r \in (IF LoopHeadRefills(Cur) THEN ReadResults(Cur) ELSE {NoRead}) :
          Go(LoopHeadStep(Cur, r))

Entity == pc = "dispatch" /\ Dispatch(Cur) = "entity" /\ Go(EntityStep(Cur))

Text == pc = "dispatch" /\ Dispatch(Cur) = "text" /\ Go(TextStep(Cur))

Comment ==
    /\ pc = "dispatch" /\ Dispatch(Cur) = "comment"
    /\ \E r \in (IF RetryRefills(Cur) THEN ReadResults(Cur) ELSE {NoRead}) :
          Go(CommentStep(Cur, r))

CData ==
    /\ pc = "dispatch" /\ Dispatch(Cur) = "cdata"
    /\ \E r \in (IF RetryRefills(Cur) THEN ReadResults(Cur) ELSE {NoRead}) :
          Go(CDataStep(Cur, r))

PI == pc = "dispatch" /\ Dispatch(Cur) = "pi" /\ Go(PIStep(Cur))

EndTag == pc = "dispatch" /\ Dispatch(Cur) = "endtag" /\ Go(EndTagStep(Cur))

StartTag == pc = "dispatch" /\ Dispatch(Cur) = "starttag" /\ Go(StartTagStep(Cur))

Trailing == pc = "trailing" /\ Go(TrailingStep(Cur))

TrailingCommentTag ==
    /\ pc = "tail" /\ TrailingComment(Cur)
    /\ \E r \in (IF TrailingRefills(Cur) THEN ReadResults(Cur) ELSE {NoRead}) :
          Go(TrailingCommentStep(Cur, r))

Report == pc = "tail" /\ ~TrailingComment(Cur) /\ Go(ReportStep(Cur))

Next ==
    \/ Start \/ LoopHead \/ Entity \/ Text \/ Comment \/ CData \/ PI
    \/ EndTag \/ StartTag \/ Trailing \/ TrailingCommentTag \/ Report

\* srcfacts reading standard input through libarchive, whose
\* archive_read_data fills every request until the entry ends
Spec == Init /\ [][Next]_vars

\* srcfacts over a byte source whose reads may come back short
SpecChunked == InitChunked /\ [][Next]_vars

\* srcfacts over standard input that holds more character data than an
\* int counts
SpecLong == InitLong /\ [][Next]_vars

-----------------------------------------------------------------------------
(* The whole run as a function of the input, for a byte source that fills  *)
(* every request and never fails                                           *)

\* one step of main() from s
StepWhole(s) ==
    LET r == WholeRead(s)
        branch == Dispatch(s)
    IN  CASE s.pc = "start" -> Preamble(s, r)
          [] s.pc = "loop" -> LoopHeadStep(s, r)
          [] s.pc = "dispatch" ->
                CASE branch = "entity" -> EntityStep(s)
                  [] branch = "text" -> TextStep(s)
                  [] branch = "comment" -> CommentStep(s, r)
                  [] branch = "cdata" -> CDataStep(s, r)
                  [] branch = "pi" -> PIStep(s)
                  [] branch = "endtag" -> EndTagStep(s)
                  [] OTHER -> StartTagStep(s)
          [] s.pc = "trailing" -> TrailingStep(s)
          [] s.pc = "tail" ->
                IF TrailingComment(s) THEN TrailingCommentStep(s, r)
                ELSE ReportStep(s)
          [] OTHER -> s

\* the state main() ends in, or the state after fuel steps
RECURSIVE RunWhole(_, _)
RunWhole(s, fuel) ==
    IF Halted(s) \/ fuel = 0 THEN s ELSE RunWhole(StepWhole(s), fuel - 1)

\* more steps than a run that consumes its input takes
Fuel(bytes) == 3 * Len(bytes) + 8

-----------------------------------------------------------------------------
(* What a tree-based parse of the document finds *)

\* the local part of a qualified name
LocalOf(name) ==
    LET colons == {i \in DOMAIN name : name[i] = ":"}
    IN  IF colons = {} THEN name
        ELSE SubSeq(name, (CHOOSE i \in colons : \A j \in colons : i <= j) + 1,
                    Len(name))

\* the start tags of t, self-closing or not, whose local name is word
StartTagsNamed(t, word) ==
    Cardinality({i \in DOMAIN t : /\ t[i].k \in {"stag", "empty"}
                                  /\ LocalOf(t[i].name) = word})

TreeCounters(t) ==
    [ expr |-> StartTagsNamed(t, Lit("expr")),
      decl |-> StartTagsNamed(t, Lit("decl")),
      comment |-> StartTagsNamed(t, Lit("comment")),
      function |-> StartTagsNamed(t, Lit("function")),
      unit |-> StartTagsNamed(t, Lit("unit")),
      class |-> StartTagsNamed(t, Lit("class")) ]

RECURSIVE Newlines(_)
Newlines(bytes) ==
    IF bytes = <<>> THEN 0
    ELSE (IF Head(bytes) = "\n" THEN 1 ELSE 0) + Newlines(Tail(bytes))

\* the newline bytes in the text runs and CDATA sections of t
RECURSIVE TreeLoc(_)
TreeLoc(t) ==
    IF t = <<>> THEN 0
    ELSE (IF Head(t).k \in {"text", "cdata"} THEN Newlines(Head(t).body) ELSE 0)
         + TreeLoc(Tail(t))

\* the bytes in the text runs and CDATA sections of t
RECURSIVE TreeText(_)
TreeText(t) ==
    IF t = <<>> THEN 0
    ELSE (IF Head(t).k \in {"text", "cdata"} THEN Len(Head(t).body) ELSE 0)
         + TreeText(Tail(t))

\* the attributes of the start tags of t, in document order
TreeAttrs(t) ==
    Flatten([i \in DOMAIN t |->
               IF t[i].k \in {"stag", "empty"} THEN t[i].attrs ELSE <<>>])

\* whether an attribute is a namespace declaration
IsXmlns(a) ==
    \/ a.name = Lit("xmlns")
    \/ Len(a.name) > 5 /\ SubSeq(a.name, 1, 5) = Lit("xmlns") /\ a.name[6] = ":"

\* the value of the last attribute in as that is named url (by its local
\* name if byLocal, else by its whole name), or found if there is none
RECURSIVE LastUrl(_, _, _)
LastUrl(as, byLocal, found) ==
    IF as = <<>> THEN found
    ELSE LET a == Head(as)
             name == IF byLocal THEN LocalOf(a.name) ELSE a.name
         IN  LastUrl(Tail(as), byLocal,
                     IF ~IsXmlns(a) /\ name = Lit("url") THEN a.value ELSE found)

\* the element counters of the run
Counters(s) ==
    [ expr |-> s.exprCount, decl |-> s.declCount, comment |-> s.commentCount,
      function |-> s.functionCount, unit |-> s.unitCount,
      class |-> s.classCount ]

\* how a run ended, and with which counters
Outcome(s) ==
    [ pc |-> s.pc, exitStatus |-> s.exitStatus, textSize |-> s.textSize,
      loc |-> s.loc, counters |-> Counters(s), url |-> s.url ]

\* the byte source answered every call so far without an error
NoSourceError == lastRefill.ret >= 0

-----------------------------------------------------------------------------
(* Claims *)

C2_OccupancyWithinCapacity ==
    lastRefill.site # "none" => Len(lastRefill.post) <= BUFFER_SIZE

\* C3: after a refillContent call that reports no error, the window is the
\* bytes that were unconsumed before the call followed by the bytes newly
\* read; so the window is always the latest bytes of the stream, in order.
C3_RefillPreservesWindow ==
    (lastRefill.site # "none" /\ lastRefill.ret >= 0) =>
        /\ lastRefill.post = lastRefill.pre \o lastRefill.got
        /\ cSize <= srcPos
        /\ Window(Cur) = SubSeq(input, srcPos - cSize + 1, srcPos)

\* C4: where an iteration of the main loop dispatches on the lookahead,
\* the window holds at least BLOCK_SIZE bytes, or the stream has ended (all
\* of the input has been delivered) and the window is the input's tail.
C4_DispatchInvariant ==
    pc = "dispatch" =>
        \/ cSize >= BLOCK_SIZE
        \/ /\ srcPos = Len(input)
           /\ cSize <= Len(input)
           /\ Window(Cur) = SubSeq(input, Len(input) - cSize + 1, Len(input))

\* C4 witness: a dispatch after a refill by the loop head that brought the
\* window back to a block or more, with input still to come
C4_Witness ==
    /\ pc = "dispatch" /\ lastRefill.site = "loop" /\ lastRefill.ret > 0
    /\ Len(lastRefill.pre) < BLOCK_SIZE /\ cSize >= BLOCK_SIZE
    /\ srcPos < Len(input)

\* C5: for a valid document, each element counter at the end of the run
\* (main() has returned, and the byte source did not fail) is the number of
\* start tags with that local name in the document's tree.
C5_CountersMatchTree ==
    (tree # <<>> /\ pc \in {"done", "fatal"} /\ NoSourceError)
        => Counters(Cur) = TreeCounters(tree)

\* C6: at the end of a successful run, LOC is the number of newline bytes
\* in the text runs and CDATA sections of the document; newlines in tags,
\* attribute values and comments add nothing.
C6_LocIsNewlinesOfText ==
    (tree # <<>> /\ reported) => loc = TreeLoc(tree)

\* C6 witness: a report for <decl a="x\n>">d</decl> next to the text
\* "a\nb\nc": a newline in an attribute value, two in a text run
C6_Witness ==
    /\ reported /\ loc = 2 /\ declCount = 1
    /\ \E n \in Pads : tree \in Wrapped(n, Item_decl \o Item_text)

\* <a>&lt;&gt;&amp;&zzz;</a>
EntityDocument ==
    <<"<", "a", ">",
      "&", "l", "t", ";", "&", "g", "t", ";", "&", "a", "m", "p", ";",
      "&", "z", "z", "z", ";",
      "<", "/", "a", ">">>

\* C7, as the code has it: the text &lt;&gt;&amp;&zzz; inside an element
\* adds 8 to the text size (one for each of the three references, one for
\* the & of &zzz;, and four for the text run zzz; after it) and nothing to
\* LOC.
C7_EntityTextCountsEight ==
    (input = EntityDocument /\ reported) => textSize = 8 /\ loc = 0

\* C7 as stated: the text adds exactly 4 to the text size and 0 to LOC.
C7_EntityTextCountsFour ==
    (input = EntityDocument /\ reported) => textSize = 4 /\ loc = 0

\* C7 witness: the report for the document
C7_Witness == input = EntityDocument /\ reported /\ exitStatus = 0

\* <unit/>
UnitOnly == <<"<", "u", "n", "i", "t", "/", ">">>

\* C8: the input <unit/> is parsed successfully (only a failing byte source
\* stops it) with unitCount = 1, every other counter 0 and files = 1, and
\* the one dispatch of the main loop, on the tag, consumes the input and
\* leaves the loop: nothing is dispatched after it.
C8_SelfClosingRoot ==
    /\ [](input = UnitOnly =>
            /\ pc # "undefined"
            /\ (pc = "fatal" => ~NoSourceError)
            /\ (pc \in {"trailing", "tail", "done"} =>
                  /\ Counters(Cur) = [expr |-> 0, decl |-> 0, comment |-> 0,
                                      function |-> 0, unit |-> 1, class |-> 0]
                  /\ textSize = 0 /\ loc = 0 /\ depth = 0 /\ cSize = 0)
            /\ (pc = "done" => reported /\ exitStatus = 0 /\ files = 1))
    /\ [][input = UnitOnly =>
            /\ (pc = "dispatch" => pc' = "trailing" /\ srcPos' = Len(input))
            /\ (pc \in {"trailing", "tail"} => pc' \in {"tail", "done"})]_vars

\* C8 witness: the report for <unit/>
C8_Witness ==
    input = UnitOnly /\ reported /\ unitCount = 1 /\ files = 1

\* C9: the reported file count is max(unitCount - 1, 1), whatever the final
\* unitCount: 0, 1 and 5 give 1, 1 and 4.
C9_FilesFormula ==
    reported =>
        /\ files = (IF unitCount - 1 > 1 THEN unitCount - 1 ELSE 1)
        /\ (unitCount = 0 => files = 1)
        /\ (unitCount = 1 => files = 1)
        /\ (unitCount = 5 => files = 4)

\* C9 witness: a report for a document with five unit elements
C9_Witness == reported /\ unitCount = 5 /\ files = 4

\* C10: the report is written only after full success.  A run in which an
\* error was reported has ended with exit status 1 and no report; a run
\* with a report has reported no error and ended with exit status 0; and
\* exit status 1 comes with a diagnostic.
C10_ReportOnlyOnSuccess ==
    /\ (errs # <<>> => pc = "fatal" /\ exitStatus = 1 /\ ~reported)
    /\ (reported => errs = <<>> /\ exitStatus = 0 /\ pc = "done")
    /\ (pc = "fatal" => errs # <<>> /\ exitStatus = 1 /\ ~reported)
    /\ (exitStatus = 0 => reported)

\* C10 witness: a grammar error found after elements had been counted
C10_Witness ==
    /\ pc = "fatal" /\ NoSourceError /\ unitCount >= 1
    /\ exitStatus = 1 /\ ~reported

\* C11: a run on an input whose <!DOCTYPE section never closes (its bracket
\* depth never returns to 0) ends fatal, with exit status 1 and no report.
C11_UnterminatedDoctypeIsFatal ==
    (input \in UnterminatedDoctypes /\ Halted(Cur) /\ NoSourceError)
        => pc = "fatal" /\ exitStatus = 1 /\ ~reported

\* whether lit occurs in bytes, and what follows its first occurrence
Occurs(bytes, lit) ==
    \E i \in 1..(Len(bytes) - Len(lit) + 1) :
        SubSeq(bytes, i, i + Len(lit) - 1) = lit
AfterFirst(bytes, lit) ==
    LET hits == {i \in 1..(Len(bytes) - Len(lit) + 1) :
                    SubSeq(bytes, i, i + Len(lit) - 1) = lit}
        first == CHOOSE i \in hits : \A j \in hits : i <= j
    IN  SubSeq(bytes, first + Len(lit), Len(bytes))

\* the window of the next state
NextWindow ==
    Window([Cur EXCEPT !.buffer = buffer', !.cStart = cStart', !.cSize = cSize'])

\* what a step that dispatches a comment or a CDATA section may do: no
\* refill when the window holds the terminator; otherwise one refill and
\* then, by what the refilled window holds, on after the terminator or
\* the named fatal error.  undefinedAllowed admits a run that the refill
\* call takes outside defined behaviour.
RetryPolicy(undefinedAllowed) ==
    LET comment == Dispatch(Cur) = "comment"
        open == IF comment THEN 4 ELSE 9
        term == IF comment THEN Lit("-->") ELSE Lit("]]>")
        msg == IF comment THEN "parser error : Unterminated XML comment"
               ELSE "parser error : Unterminated CDATA"
        body == SubSeq(Window(Cur), open + 1, cSize)
        post == lastRefill'.post
    IN  (pc = "dispatch" /\ Dispatch(Cur) \in {"comment", "cdata"} /\ cSize >= open)
        => IF Occurs(body, term)
           THEN /\ refillCalls' = refillCalls
                /\ pc' = "loop" /\ NextWindow = AfterFirst(body, term)
           ELSE /\ refillCalls' = refillCalls + 1
                /\ lastRefill'.site = (IF comment THEN "comment" ELSE "cdata")
                /\ lastRefill'.pre = body
                /\ \/ undefinedAllowed /\ pc' = "undefined"
                   \/ lastRefill'.ret < 0 /\ pc' = "fatal"
                   \/ /\ lastRefill'.ret >= 0 /\ Occurs(post, term)
                      /\ pc' = "loop" /\ NextWindow = AfterFirst(post, term)
                   \/ /\ lastRefill'.ret >= 0 /\ ~Occurs(post, term)
                      /\ pc' = "fatal" /\ exitStatus' = 1 /\ errs' = <<msg>>

\* C12: the retry policy of comments and CDATA sections.  When the
\* terminator is not in the window, the step makes exactly one refill and
\* searches again: still not found, the run is fatal (unterminated comment
\* or CDATA); found, parsing continues after the terminator.  There is no
\* second refill for the same section.
C12_RetryOnceThenFatal == [][RetryPolicy(FALSE)]_vars

\* C13: an end tag whose name is empty (as in </>) or starts with a colon
\* is fatal: the step that dispatches it ends the run with exit status 1
\* and no report, and leaves the nesting depth as it was.
C13_InvalidEndTagIsFatal ==
    [][(/\ pc = "dispatch" /\ Dispatch(Cur) = "endtag"
        /\ cSize > 2 /\ At(Cur, 2) \in NAMEEND)
       => /\ pc' = "fatal" /\ exitStatus' = 1 /\ ~reported'
          /\ depth' = depth]_vars

\* C13 witness: inside the root element, </> has ended the run
C13_Witness ==
    /\ input = <<"<", "a", ">", "<", "/", ">">>
    /\ pc = "fatal" /\ depth = 1 /\ exitStatus = 1 /\ ~reported
    /\ errs = <<"parser error: EndTag: invalid element name">>

\* C14: a start tag with an attribute that is not name="value" or
\* name='value' (no =, no opening quote, or no closing quote of the same
\* kind) is fatal: the run ends with exit status 1 and no report.
C14_MalformedAttributeIsFatal ==
    (input \in MalformedAttributes /\ Halted(Cur) /\ NoSourceError)
        => pc = "fatal" /\ exitStatus = 1 /\ ~reported

\* C15: after the main loop only white space and comments may remain in
\* the input.  A run on an input with any other byte after its root
\* element, in the window or still unread, ends fatal with "extra content
\* at end of document" and prints no report.
C15_ExtraContentIsFatal ==
    (input \in ExtraContent /\ Halted(Cur) /\ NoSourceError)
        => /\ pc = "fatal" /\ exitStatus = 1 /\ ~reported
           /\ errs = <<"parser error : extra content at end of document">>

\* C16: the nesting depth is an integer that is at least 0 in every
\* reachable state, for every input, also for one that begins with an end
\* tag or has more end tags than start tags.
C16_DepthNotNegative == depth \in Nat

\* the byte k places before the window of the next state
NextBefore(k) ==
    At([Cur EXCEPT !.buffer = buffer', !.cStart = cStart', !.cSize = cSize'], -k)

\* what a step that is not the end of the run does to the nesting depth.
\* The first conjunct is about steps within defined behaviour: after a
\* remove_prefix(npos) the window is not where the tag's bytes put it.
DepthStep ==
    LET tag == Dispatch(Cur)
        closed == tag = "starttag" /\ NextBefore(1) = ">"
        selfClosed == closed /\ NextBefore(2) = "/"
        ended == IF depth' = 0 THEN "trailing" ELSE "loop"
    IN  /\ (pc = "dispatch" /\ pc' \notin {"fatal", "undefined"} /\ ~rewound') =>
              IF tag = "endtag" THEN depth' = depth - 1 /\ pc' = ended
              ELSE IF selfClosed THEN depth' = depth /\ pc' = ended
              ELSE IF closed THEN depth' = depth + 1 /\ pc' = "loop"
              ELSE depth' = depth /\ pc' = "loop"
        /\ pc # "dispatch" => depth' = depth
        /\ pc \in {"trailing", "tail"} =>
              /\ pc' \in {"tail", "done", "fatal", "undefined"}
              /\ Counters(Cur)' = Counters(Cur)
              /\ textSize' = textSize /\ loc' = loc /\ url' = url

\* C17: depth transitions.  A start tag closed by > adds exactly 1 to the
\* depth, an end tag takes exactly 1 from it, and a start tag closed by />
\* leaves it as it is.  The main loop ends with the step in which an end
\* tag brings the depth to 0 or a /> tag is completed at depth 0, and from
\* then on no byte is tokenized as element content: nothing is counted.
C17_DepthTransitions == [][DepthStep]_vars

\* C17 witness: an end tag has brought the depth to 0 and ended the main
\* loop, with bytes of the input left in the window
C17_Witness ==
    /\ tree # <<>> /\ pc = "trailing" /\ depth = 0
    /\ textSize > 0 /\ cSize > 0

\* C18: a processing instruction dispatched in the main loop must have its
\* terminator ?> in the current window.  If it has not, the step is fatal
\* at once (exit status 1, no report) and makes no refill call.
C18_PINeverRefills ==
    [][(/\ pc = "dispatch" /\ Dispatch(Cur) = "pi" /\ cSize >= 2
        /\ ~Occurs(SubSeq(Window(Cur), 3, cSize), Lit("?>")))
       => /\ pc' = "fatal" /\ exitStatus' = 1 /\ ~reported'
          /\ refillCalls' = refillCalls /\ lastRefill' = lastRefill
          /\ srcPos' = srcPos]_vars

\* C18 witness: a processing instruction that the window ends in has ended
\* the run after the one call that filled the window, with input left to
\* read
C18_Witness ==
    /\ input = CutInstruction
    /\ pc = "fatal" /\ exitStatus = 1 /\ ~reported
    /\ refillCalls = 1 /\ srcPos < Len(input)
    /\ errs = <<"parser error: Incomplete XML declaration">>

\* the retry of a comment or CDATA section that is called for after the
\* end of the input has been seen, should the call on the released handle
\* come back with r: -> the state after the step
RetryAfterEOF(r) ==
    LET s == [Cur EXCEPT !.archive = "open"]
    IN  IF pc = "tail" THEN TrailingCommentStep(s, r)
        ELSE IF Dispatch(s) = "comment" THEN CommentStep(s, r)
        ELSE CDataStep(s, r)

\* C19: after a refill has reported EOF (no bytes read, the byte source
\* closed) the rest of the run has at most one more refillContent call,
\* and none from the head of the main loop.  The loop's flag doneReading
\* is set exactly when the byte source is closed; and the one call a retry
\* makes then, whether it comes back with no bytes or with an error, ends
\* the run.
C19_AtMostOneCallAfterEOF ==
    /\ lastRefill.afterEOF <= 1
    /\ lastRefill.site \in {"initial", "loop"} => lastRefill.afterEOF = 0
    /\ ~Halted(Cur) => (doneReading <=> archive = "freed")
    /\ (pc = "loop" /\ archive = "freed") => ~LoopHeadRefills(Cur)
    /\ (/\ archive = "freed"
        /\ \/ pc = "dispatch" /\ RetryRefills(Cur)
           \/ pc = "tail" /\ TrailingRefills(Cur))
       => \A r \in {NoRead, [fail |-> "read", n |-> 0]} :
             /\ RetryAfterEOF(r).pc = "fatal"
             /\ RetryAfterEOF(r).refillCalls = refillCalls + 1

\* C19 witness: the one further call, made by the retry of a comment
C19_Witness ==
    /\ lastRefill.afterEOF = 1 /\ lastRefill.site = "comment"
    /\ archive = "freed" /\ doneReading

\* C20: at the end of a successful run the captured url is the value of
\* the last attribute, in document order, whose local name is url (with or
\* without a namespace prefix), and is empty if there is none; attributes
\* with other local names and namespace declarations never change it.
C20_UrlOfLastLocalUrl ==
    (reported /\ tree # <<>>) => url = LastUrl(TreeAttrs(tree), TRUE, <<>>)

\* C20 as stated: the captured url is the value of the last attribute
\* whose name is url, so that an attribute c:url does not change it
C20_UrlOfLastNamedUrl ==
    (reported /\ tree # <<>>) => url = LastUrl(TreeAttrs(tree), FALSE, <<>>)

\* C20 witness: the report of a document whose last url attribute has a
\* prefix
C20_Witness ==
    reported /\ tree = PrefixedUrl /\ url = <<"z">>

\* the position in the input of the first byte of the window
WindowPos == srcPos - cSize

\* C21: termination.  The run ends for every input, with the report or
\* with a fatal error, because every iteration of the main loop that does
\* not end the run takes at least one byte from the window.
C21_IterationConsumes ==
    [][(pc = "dispatch" /\ pc' = "loop") => WindowPos' > WindowPos]_vars

\* C22: the grammar of the XML declaration.  A declaration with version
\* absent or not first, with another attribute name, with a missing =, or
\* with a closing quote that does not match the opening one is fatal: the
\* run ends with exit status 1 and no report.
C22_MalformedDeclarationIsFatal ==
    (input \in MalformedDeclarations /\ Halted(Cur) /\ NoSourceError)
        => pc = "fatal" /\ exitStatus = 1 /\ ~reported

\* C23: no recovery from an unterminated tag.  A start tag or end tag
\* whose name the input ends in, or with something else than > (or /> for
\* a start tag) after its name and attributes, is fatal at once: the run
\* ends with exit status 1 and no report, and does not go on tokenizing.
C23_UnterminatedTagIsFatal ==
    (input \in UnterminatedTags /\ Halted(Cur) /\ NoSourceError)
        => pc = "fatal" /\ exitStatus = 1 /\ ~reported

\* the element counters that a step changes
Changed ==
    {c \in DOMAIN Counters(Cur) : Counters(Cur)'[c] # Counters(Cur)[c]}

\* what the step of a parser event may change, by the event dispatched
Frame ==
    LET event == Dispatch(Cur)
        text == textSize' = textSize /\ loc' = loc
        elements == Changed = {}
    IN  (pc = "dispatch" /\ pc' # "undefined" /\ ~rewound') =>
           CASE event \in {"text", "entity", "cdata"} ->
                    elements /\ url' = url /\ depth' = depth
             [] event = "starttag" ->
                    /\ text
                    /\ Cardinality(Changed) <= 1
                    /\ \A c \in Changed : Counters(Cur)'[c] = Counters(Cur)[c] + 1
             [] event = "endtag" -> text /\ elements /\ url' = url
             [] event \in {"comment", "pi"} ->
                    text /\ elements /\ url' = url /\ depth' = depth

\* C24: the frame of the parser events.  A text run, an entity reference
\* or a CDATA section changes only text size and LOC; a start tag changes
\* at most one element counter, by exactly 1, and possibly url and depth,
\* but not text size or LOC; an end tag changes only depth; a comment or a
\* processing instruction changes no counter, nor url, nor depth.
C24_FrameOfEvents == [][Frame]_vars

\* C24 witness: a document with text, a CDATA section, a comment and
\* counted elements has been parsed to its end, every counter of the
\* report being what the events of its kind made it
C24_Witness ==
    /\ reported /\ tree # <<>>
    /\ textSize > 0 /\ loc > 0 /\ unitCount > 0 /\ url # <<>>
    /\ \E i \in DOMAIN tree : tree[i].k = "comment"

\* whether lit stands in bytes at index i
StandsAt(bytes, i, lit) ==
    i + Len(lit) - 1 <= Len(bytes) /\ SubSeq(bytes, i, i + Len(lit) - 1) = lit

\* the index in bytes of the > that ends the DOCTYPE, scanning from index
\* i, or 0: a < raises and a > lowers the bracket depth when it is outside
\* single quotes, outside double quotes and outside a comment
RECURSIVE DoctypeEnd(_, _, _, _, _, _)
DoctypeEnd(bytes, i, brackets, single, double, comment) ==
    IF i > Len(bytes) THEN 0
    ELSE IF comment
    THEN IF StandsAt(bytes, i, Lit("-->"))
         THEN DoctypeEnd(bytes, i + 3, brackets, single, double, FALSE)
         ELSE DoctypeEnd(bytes, i + 1, brackets, single, double, TRUE)
    ELSE IF StandsAt(bytes, i, Lit("<!--"))
    THEN DoctypeEnd(bytes, i + 4, brackets, single, double, TRUE)
    ELSE IF bytes[i] = "<" /\ ~single /\ ~double
    THEN DoctypeEnd(bytes, i + 1, brackets + 1, single, double, FALSE)
    ELSE IF bytes[i] = ">" /\ ~single /\ ~double
    THEN IF brackets = 1 THEN i
         ELSE DoctypeEnd(bytes, i + 1, brackets - 1, single, double, FALSE)
    ELSE IF bytes[i] = "'"
    THEN DoctypeEnd(bytes, i + 1, brackets, ~single, double, FALSE)
    ELSE IF bytes[i] = "\""
    THEN DoctypeEnd(bytes, i + 1, brackets, single, ~double, FALSE)
    ELSE DoctypeEnd(bytes, i + 1, brackets, single, double, FALSE)

\* bytes without their leading white space
RECURSIVE TrimLeft(_)
TrimLeft(bytes) ==
    IF bytes # <<>> /\ Head(bytes) \in WHITESPACE THEN TrimLeft(Tail(bytes))
    ELSE bytes

\* C25: DOCTYPE scanning.  With bracket depth 1 after <!DOCTYPE, each <
\* raises and each > lowers the depth when it is outside single quotes,
\* outside double quotes and outside a <!-- --> comment; the scan stops at
\* the first > that brings the depth to 0, and the parser goes on right
\* after that > (and the white space that follows it).
C25_DoctypeScan ==
    [][(/\ pc = "start" /\ input \in Doctypes
        /\ lastRefill'.ret > 0 /\ pc' # "undefined")
       => LET end == DoctypeEnd(input, 10, 1, FALSE, FALSE, FALSE)
          IN  /\ end # 0 /\ pc' = "loop"
              /\ NextWindow = TrimLeft(SubSeq(input, end + 1, Len(input)))]_vars

\* C26: a run that prints the report left the main loop with nesting depth
\* 0: its root element was closed by its end tag or was self-closing.  An
\* input that ends while the depth is above 0 gives no report.
C26_ReportAtDepthZero == reported => depth = 0

\* C27: the parser looks at no byte outside the window.  When the refill
\* at the head of the main loop reports EOF with the window empty, the
\* loop ends there: no iteration dispatches on content[0] of an empty
\* window, where a byte of an earlier window is left in the buffer.
C27_DispatchInsideWindow == pc = "dispatch" => cSize > 0

\* C28: the metric counters never wrap. For a document whose character
\* data is longer than the largest value of the counters' integer type,
\* the reported text size is the number of text and CDATA bytes, and the
\* reported LOC the number of newlines among them.
C28_CountersNeverWrap ==
    (reported /\ tree \in LongTrees) =>
        textSize = TreeText(tree) /\ loc = TreeLoc(tree)

\* C29: the byte source is never read from after it has been released: no
\* refillContent call is made once archive_read_free has run, so the
\* source is opened by the first call, released at most once, and left
\* alone from then on.
C29_NeverReadAfterRelease == lastRefill.afterEOF = 0

=============================================================================
